---- MODULE Spec2Model ----
(***************************************************************************)
(* energy_analysis.py: a billing history and a daily climate table are     *)
(* aligned into (cycle temperature, 30-day usage) samples, a quadratic is  *)
(* fitted, a rate per provider is aggregated, and a prompt loop answers    *)
(* (provider, month) queries with costProjection.                          *)
(*                                                                         *)
(* Numbers are numpy float64 values, modelled as extended rationals        *)
(* [n, d]: d > 0 is the finite value n/d in lowest terms, 1/0 is +inf,     *)
(* -1/0 is -inf and 0/0 is NaN (numpy divides by zero with a warning and   *)
(* no exception).                                                          *)
(***************************************************************************)
EXTENDS Integers, Sequences, FiniteSets, TLC

\* ------------------------------------------------------------- bounds
MaxDay == 3
MaxPeriods == 2
MaxQueries == 2
MaxTemp == 4

\* ------------------------------------------------- program constants
NumMonths == 12
NormDays == 30
X0 == 65

VARIABLES energy_df, temp_df, monthly_df, stdin, nread,
          pc, err,
          avg_temp, cycle_avg_temp, electric_norm, coefs,
          provider_list, provider_amount, provider_billed, provider_rate,
          call, ret, stdout

vars == <<energy_df, temp_df, monthly_df, stdin, nread, pc, err,
          avg_temp, cycle_avg_temp, electric_norm, coefs,
          provider_list, provider_amount, provider_billed, provider_rate,
          call, ret, stdout>>

inputs == <<energy_df, temp_df, monthly_df, stdin>>

\* ------------------------------------------------------ float64 values
AbsInt(k) == IF k < 0 THEN -k ELSE k

SgnInt(k) == IF k > 0 THEN 1 ELSE IF k < 0 THEN -1 ELSE 0

RECURSIVE GCD(_, _)
GCD(a, b) == IF b = 0 THEN a ELSE GCD(b, a % b)

Norm(n, d) ==
    IF d = 0 THEN [n |-> SgnInt(n), d |-> 0]
    ELSE LET s == SgnInt(d)
             g == GCD(AbsInt(n), AbsInt(d))
         IN  [n |-> (s * n) \div g, d |-> (s * d) \div g]

F(k) == [n |-> k, d |-> 1]

NaN == [n |-> 0, d |-> 0]

Inf == [n |-> 1, d |-> 0]

IsFinite(x) == x.d > 0

FNeg(x) == [n |-> -x.n, d |-> x.d]

FAbs(x) == [n |-> AbsInt(x.n), d |-> x.d]

FAdd(x, y) ==
    IF x.d = 0 /\ y.d = 0
    THEN (IF x.n = y.n THEN x ELSE NaN)
    ELSE Norm(x.n * y.d + y.n * x.d, x.d * y.d)

FSub(x, y) == FAdd(x, FNeg(y))

FMul(x, y) == Norm(x.n * y.n, x.d * y.d)

FInv(x) ==
    IF x.n > 0 THEN [n |-> x.d, d |-> x.n]
    ELSE IF x.n < 0 THEN [n |-> -x.d, d |-> -x.n]
    ELSE IF x.d > 0 THEN Inf ELSE NaN

FDiv(x, y) == FMul(x, FInv(y))

\* x > y as numpy compares: FALSE whenever either side is NaN
FGt(x, y) == FSub(x, y).n > 0

FLt(x, y) == FGt(y, x)

RECURSIVE FSum(_)
FSum(s) == IF s = <<>> THEN F(0) ELSE FAdd(Head(s), FSum(Tail(s)))

\* numpy.mean: the sum over the count; the mean of nothing is 0/0 = NaN
Mean(s) == FDiv(FSum(s), F(Len(s)))

\* ------------------------------------------------- the fitted quadratic
\* func = lambda x: coefs[0] * x ** 2 + coefs[1] * x + coefs[2]
Func(c, x) == FAdd(FAdd(FMul(c[1], FMul(x, x)), FMul(c[2], x)), c[3])

\* -b / (2a): where a convex quadratic has its minimum
Vertex(c) == FDiv(FNeg(c[2]), FMul(F(2), c[1]))

costProjectionSwapped(avg, lower, upper, critical, c) ==
    IF FGt(FAbs(FSub(lower, critical)), FAbs(FSub(upper, critical)))
    THEN [expected |-> Func(c, avg), expensive |-> Func(c, upper), cheap |-> Func(c, lower)]
    ELSE [expected |-> Func(c, avg), expensive |-> Func(c, lower), cheap |-> Func(c, upper)]

costProjectionSigned(avg, lower, upper, critical, c) ==
    IF FGt(FSub(lower, critical), FSub(upper, critical))
    THEN [expected |-> Func(c, avg), expensive |-> Func(c, lower), cheap |-> Func(c, upper)]
    ELSE [expected |-> Func(c, avg), expensive |-> Func(c, upper), cheap |-> Func(c, lower)]

costProjection(avg, lower, upper, critical, c) ==
    IF FGt(FAbs(FSub(lower, critical)), FAbs(FSub(upper, critical)))
    THEN [expected |-> Func(c, avg), expensive |-> Func(c, lower), cheap |-> Func(c, upper)]
    ELSE IF FGt(FAbs(FSub(upper, critical)), FAbs(FSub(lower, critical)))
    THEN [expected |-> Func(c, avg), expensive |-> Func(c, upper), cheap |-> Func(c, lower)]
    ELSE [expected |-> Func(c, avg), expensive |-> Func(c, upper), cheap |-> Func(c, lower)]

\* lines 126-130: the three usages and each one priced at the provider's rate
Projection(avg, lower, upper, critical, c, rate) ==
    LET u == costProjection(avg, lower, upper, critical, c)
    IN  [expected |-> u.expected, expensive |-> u.expensive, cheap |-> u.cheap,
         expected_cost |-> FMul(u.expected, rate),
         expensive_cost |-> FMul(u.expensive, rate),
         cheap_cost |-> FMul(u.cheap, rate)]

\* Where scipy's fmin stops when it runs out of iterations on a function with
\* no minimum: far from its start X0.
FminFar == 100000

\* critical = fmin(func, 65.0)[0], the Nelder-Mead simplex started at X0 and
\* 1.05 * X0. A convex quadratic is minimised at its vertex. On a quadratic
\* (or a line) that is unbounded below the simplex walks downhill until the
\* iteration limit: upwards when func(1.05 * X0) < func(X0), else downwards.
\* A flat or NaN-valued func never moves it away from X0.
Fmin(c) ==
    IF \A k \in 1..3 : IsFinite(c[k])
    THEN IF c[1].n > 0 THEN Vertex(c)
         ELSE IF c[1].n < 0 \/ c[2].n # 0
         THEN (IF FLt(Func(c, Norm(21 * X0, 20)), Func(c, F(X0)))
               THEN F(X0 + FminFar) ELSE F(X0 - FminFar))
         ELSE F(X0)
    ELSE F(X0)

\* ------------------------------------------------------ table look-ups
\* numpy.polyfit(x, y, 2) is library code: on finite samples it returns some
\* finite coefficient triple; on a NaN or infinite sample it either raises
\* LinAlgError or returns NaN coefficients, depending on the LAPACK build.
CoefSet == { <<F(1), F(-130), F(5000)>>, <<F(-1), F(130), F(0)>>, <<F(0), F(10), F(100)>> }

PolyfitOutcomes(x, y) ==
    IF \A i \in 1..Len(x) : IsFinite(x[i]) /\ IsFinite(y[i])
    THEN {[ok |-> TRUE, coefs |-> c] : c \in CoefSet}
    ELSE {[ok |-> FALSE, coefs |-> <<>>], [ok |-> TRUE, coefs |-> <<NaN, NaN, NaN>>]}

\* series[key] on a pandas Series with the default integer index 0..n-1 is a
\* look-up by label: a key that is no label (-1, n) raises KeyError.
SeriesGetWrapping(s, key) ==
    IF key \in DOMAIN s THEN [ok |-> TRUE, val |-> s[key]]
    ELSE IF key + NumMonths \in DOMAIN s THEN [ok |-> TRUE, val |-> s[key + NumMonths]]
    ELSE [ok |-> FALSE, val |-> NaN]

SeriesGet(s, key) ==
    IF key \in DOMAIN s THEN [ok |-> TRUE, val |-> s[key]]
    ELSE [ok |-> FALSE, val |-> NaN]

\* list[i] on a Python list of n items: -n..n-1 are valid, negative counts
\* from the end, anything else raises IndexError. The model's lists are 1-based.
ListGet(l, i) ==
    IF 0 <= i /\ i < Len(l) THEN [ok |-> TRUE, val |-> l[i + 1]]
    ELSE IF -Len(l) <= i /\ i < 0 THEN [ok |-> TRUE, val |-> l[Len(l) + i + 1]]
    ELSE [ok |-> FALSE, val |-> ""]

\* ----------------------------------------------------- pipeline helpers
\* line 77
DailyMean(row) == FDiv(FAdd(row.highs, row.lows), F(2))

\* lines 83-84: the daily means whose date lies in [start, end]
InWindowHalfOpen(date, start, end) == date >= start /\ date < end

InWindow(date, start, end) == date >= start /\ date <= end

Selected(avgs, table, start, end) ==
    LET idx == SelectSeq([j \in 1..Len(table) |-> j],
                         LAMBDA j : InWindow(table[j].dates, start, end))
    IN  [k \in 1..Len(idx) |-> avgs[idx[k]]]

\* line 89
DaysOf(row) == row.End - row.Start

\* line 90
Normalized(row) == FDiv(row.Usage, FDiv(F(DaysOf(row)), F(NormDays)))

\* line 96
Providers(table) == {table[i].Provider : i \in 1..Len(table)}

\* lines 102-105, for one provider
MatchesAny(provider, row) == TRUE

Matches(provider, row) == provider = row.Provider

RECURSIVE AccumUsage(_, _)
AccumUsage(table, provider) ==
    IF table = <<>> THEN F(0)
    ELSE LET before == AccumUsage(SubSeq(table, 1, Len(table) - 1), provider)
             row == table[Len(table)]
         IN  IF Matches(provider, row) THEN FAdd(before, row.Usage) ELSE before

RECURSIVE AccumBilled(_, _)
AccumBilled(table, provider) ==
    IF table = <<>> THEN F(0)
    ELSE LET before == AccumBilled(SubSeq(table, 1, Len(table) - 1), provider)
             row == table[Len(table)]
         IN  IF Matches(provider, row) THEN FAdd(before, row.Bill) ELSE before

\* list(set(...)): every order of the set is a possible list
Orders(S) ==
    {l \in [1..Cardinality(S) -> S] : \A x \in S : \E i \in 1..Cardinality(S) : l[i] = x}

\* monthly_avg[user_month-1]
MonthRowSame(user_month) == user_month

MonthRow(user_month) == user_month - 1

\* --------------------------------------------------------------- inputs
\* dfw.csv: one row per recorded day, ordered by date; a day may be missing.
ClimoRow(d) == [dates |-> d, highs |-> F(60 + 5 * d), lows |-> F(40 + 2 * d)]

ClimoTable(S) ==
    SelectSeq([d \in 1..MaxDay |-> ClimoRow(d)], LAMBDA r : r.dates \in S)

\* dfw_monthly.csv: twelve rows, January first.
MonthlyTable ==
    [Average |-> [k \in 0..NumMonths - 1 |-> F(45 + 4 * k)],
     p25     |-> [k \in 0..NumMonths - 1 |-> F(42 + 4 * k)],
     p75     |-> [k \in 0..NumMonths - 1 |-> F(48 + 4 * k + ((k + 1) % 2))]]

\* kwhhistory.csv rows
BillRow(s, e, u, b, p) ==
    [Start |-> s, End |-> e, Usage |-> F(u), Bill |-> F(b), Provider |-> p]

SeqsUpTo(S, lo, hi) == UNION {[1..n -> S] : n \in lo..hi}

\* one query typed at the prompt: the provider number, the month, and the
\* answer to "Do another"
OneQuery == <<[provider |-> 0, month |-> 1, again |-> "n"]>>

\* the billing windows and the recorded days vary
WindowRows == {BillRow(s, e, 300, 30, "A") : s \in 1..MaxDay, e \in 1..MaxDay}

WindowCases ==
    {[energy |-> <<w>>, temp |-> ClimoTable(S), keys |-> OneQuery] :
        w \in WindowRows, S \in SUBSET (1..MaxDay)}
    \cup
    {[energy |-> ws, temp |-> ClimoTable(S), keys |-> OneQuery] :
        ws \in SeqsUpTo(WindowRows, 2, MaxPeriods), S \in {1..MaxDay, {2}}}

\* the usage, the bill and the provider of each period vary
RateRows(k) ==
    {BillRow(k, k + 1, u, b, p) : u \in {0, 100, 200}, b \in {10, 20}, p \in {"A", "B"}}

RateCases ==
    {[energy |-> rows, temp |-> ClimoTable(1..MaxDay), keys |-> OneQuery] :
        rows \in {r \in SeqsUpTo(UNION {RateRows(k) : k \in 1..MaxPeriods}, 1, MaxPeriods) :
                     \A k \in 1..Len(r) : r[k].Start = k}}

\* what is typed at the prompt varies
TwoProviders == <<BillRow(1, 2, 100, 10, "A"), BillRow(2, 3, 200, 40, "B")>>

SingleQueries ==
    {<<[provider |-> p, month |-> m, again |-> a]>> :
        p \in -3..2, m \in 0..NumMonths + 1, a \in {"y", "n"}}

RepeatedQueries ==
    {qs \in SeqsUpTo({[provider |-> 0, month |-> 1, again |-> "y"],
                      [provider |-> 1, month |-> 1, again |-> "y"],
                      [provider |-> 0, month |-> 6, again |-> "y"],
                      [provider |-> 0, month |-> 1, again |-> "n"]}, 2, MaxQueries) :
        \A k \in 1..Len(qs) - 1 : qs[k].again = "y"}

QueryCases ==
    {[energy |-> TwoProviders, temp |-> ClimoTable(1..MaxDay), keys |-> keys] :
        keys \in {<<>>} \cup SingleQueries \cup RepeatedQueries}

InputCases == WindowCases \cup RateCases \cup QueryCases

\* ----------------------------------------------------------------- Init
Init ==
    /\ \E in \in InputCases :
          /\ energy_df = in.energy
          /\ temp_df = in.temp
          /\ stdin = in.keys
    /\ monthly_df = MonthlyTable
    /\ nread = 0
    /\ pc = "avg_temp"
    /\ err = "none"
    /\ avg_temp = <<>>
    /\ cycle_avg_temp = <<>>
    /\ electric_norm = <<>>
    /\ coefs = <<>>
    /\ provider_list = <<>>
    /\ provider_amount = <<>>
    /\ provider_billed = <<>>
    /\ provider_rate = <<>>
    /\ call = <<>>
    /\ ret = <<>>
    /\ stdout = <<>>

\* -------------------------------------------------------------- actions
\* lines 74-77
ComputeAvgTemp ==
    /\ pc = "avg_temp"
    /\ avg_temp' = [i \in 1..Len(temp_df) |-> DailyMean(temp_df[i])]
    /\ pc' = "cycle_avg_temp"
    /\ UNCHANGED <<inputs, nread, err, cycle_avg_temp, electric_norm, coefs,
                   provider_list, provider_amount, provider_billed, provider_rate,
                   call, ret, stdout>>

\* lines 79-84
ComputeCycleAvgTemp ==
    /\ pc = "cycle_avg_temp"
    /\ cycle_avg_temp' =
          [i \in 1..Len(energy_df) |->
              Mean(Selected(avg_temp, temp_df, energy_df[i].Start, energy_df[i].End))]
    /\ pc' = "electric_norm"
    /\ UNCHANGED <<inputs, nread, err, avg_temp, electric_norm, coefs,
                   provider_list, provider_amount, provider_billed, provider_rate,
                   call, ret, stdout>>

\* lines 86-90
NormalizeUsage ==
    /\ pc = "electric_norm"
    /\ electric_norm' = [i \in 1..Len(energy_df) |-> Normalized(energy_df[i])]
    /\ pc' = "polyfit"
    /\ UNCHANGED <<inputs, nread, err, avg_temp, cycle_avg_temp, coefs,
                   provider_list, provider_amount, provider_billed, provider_rate,
                   call, ret, stdout>>

\* lines 92-93
Polyfit ==
    /\ pc = "polyfit"
    /\ \E o \in PolyfitOutcomes(cycle_avg_temp, electric_norm) :
          /\ coefs' = o.coefs
          /\ pc' = IF o.ok THEN "provider_rate" ELSE "crashed"
          /\ err' = IF o.ok THEN err ELSE "LinAlgError"
    /\ UNCHANGED <<inputs, nread, avg_temp, cycle_avg_temp, electric_norm,
                   provider_list, provider_amount, provider_billed, provider_rate,
                   call, ret, stdout>>

\* lines 95-106
ComputeRates ==
    /\ pc = "provider_rate"
    /\ provider_list' \in Orders(Providers(energy_df))
    /\ provider_amount' = [p \in Providers(energy_df) |-> AccumUsage(energy_df, p)]
    /\ provider_billed' = [p \in Providers(energy_df) |-> AccumBilled(energy_df, p)]
    /\ provider_rate' =
          [p \in Providers(energy_df) |->
              FDiv(AccumBilled(energy_df, p), AccumUsage(energy_df, p))]
    /\ pc' = "query"
    /\ UNCHANGED <<inputs, nread, err, avg_temp, cycle_avg_temp, electric_norm, coefs,
                   call, ret, stdout>>

\* lines 115-136 for the typed query q: what is raised, or what is printed
Answer(q) ==
    LET prov == ListGet(provider_list, q.provider)
        avg == SeriesGet(monthly_df.Average, MonthRow(q.month))
        lower == SeriesGet(monthly_df.p25, MonthRow(q.month))
        upper == SeriesGet(monthly_df.p75, MonthRow(q.month))
        critical == Fmin(coefs)
    IN  IF ~prov.ok
        THEN [err |-> "IndexError", call |-> call, ret |-> ret, out |-> <<>>]
        ELSE IF ~(avg.ok /\ lower.ok /\ upper.ok)
        THEN [err |-> "KeyError", call |-> call, ret |-> ret, out |-> <<>>]
        ELSE LET r == Projection(avg.val, lower.val, upper.val, critical, coefs,
                                 provider_rate[prov.val])
             IN  [err  |-> "none",
                  call |-> [avg |-> avg.val, lower |-> lower.val, upper |-> upper.val,
                            critical |-> critical, rate |-> provider_rate[prov.val]],
                  ret  |-> r,
                  out  |-> <<[provider |-> q.provider, month |-> q.month, result |-> r]>>]

\* the prompt loop with the cost written back into the rate table
QueryOverwritingRate ==
    /\ pc = "query"
    /\ nread < Len(stdin)
    /\ LET q == stdin[nread + 1]
           o == Answer(q)
       IN  /\ nread' = nread + 1
           /\ call' = o.call
           /\ ret' = o.ret
           /\ stdout' = stdout \o o.out
           /\ err' = o.err
           /\ pc' = IF o.err # "none" THEN "crashed"
                    ELSE IF q.again = "n" THEN "done" ELSE "query"
           /\ provider_rate' =
                 IF o.err = "none"
                 THEN [p \in DOMAIN provider_rate |-> o.ret.expected_cost]
                 ELSE provider_rate
    /\ UNCHANGED <<inputs, avg_temp, cycle_avg_temp, electric_norm, coefs,
                   provider_list, provider_amount, provider_billed>>

\* lines 113-141: one pass of the prompt loop. raw_input raises EOFError when
\* nothing is left to read.
Query ==
    /\ pc = "query"
    /\ IF nread = Len(stdin)
       THEN /\ pc' = "crashed"
            /\ err' = "EOFError"
            /\ UNCHANGED <<nread, call, ret, stdout>>
       ELSE LET q == stdin[nread + 1]
                o == Answer(q)
            IN  /\ nread' = nread + 1
                /\ call' = o.call
                /\ ret' = o.ret
                /\ stdout' = stdout \o o.out
                /\ err' = o.err
                /\ pc' = IF o.err # "none" THEN "crashed"
                         ELSE IF q.again = "n" THEN "done" ELSE "query"
    /\ UNCHANGED <<inputs, avg_temp, cycle_avg_temp, electric_norm, coefs,
                   provider_list, provider_amount, provider_billed, provider_rate>>

Next ==
    \/ ComputeAvgTemp
    \/ ComputeCycleAvgTemp
    \/ NormalizeUsage
    \/ Polyfit
    \/ ComputeRates
    \/ Query

Spec == Init /\ [][Next]_vars

\* ------------------------------------------- costProjection on its own
\* The projection of lines 126-130 applied to arbitrary arguments: integer
\* temperatures, a critical point on the half-degree grid, and quadratics
\* a*x^2 + b*x whose vertex -b/(2a) lies on that grid.
ProjectionCalls ==
    [avg : {F(0), F(MaxTemp)},
     lower : {F(t) : t \in 0..MaxTemp},
     upper : {F(t) : t \in 0..MaxTemp},
     critical : {Norm(k, 2) : k \in 0..2 * MaxTemp},
     rate : {F(0), Norm(1, 10), Norm(-1, 10)}]

ProjectionCoefs ==
    {<<F(a), F(-a * k), F(0)>> : a \in {-1, 1}, k \in 0..2 * MaxTemp}

InitCP ==
    /\ call \in ProjectionCalls
    /\ coefs \in ProjectionCoefs
    /\ pc = "call"
    /\ ret = <<>>
    /\ err = "none"
    /\ energy_df = <<>>
    /\ temp_df = <<>>
    /\ monthly_df = MonthlyTable
    /\ stdin = <<>>
    /\ nread = 0
    /\ avg_temp = <<>>
    /\ cycle_avg_temp = <<>>
    /\ electric_norm = <<>>
    /\ provider_list = <<>>
    /\ provider_amount = <<>>
    /\ provider_billed = <<>>
    /\ provider_rate = <<>>
    /\ stdout = <<>>

Project ==
    /\ pc = "call"
    /\ ret' = Projection(call.avg, call.lower, call.upper, call.critical, coefs, call.rate)
    /\ pc' = "returned"
    /\ UNCHANGED <<inputs, nread, err, avg_temp, cycle_avg_temp, electric_norm, coefs,
                   provider_list, provider_amount, provider_billed, provider_rate,
                   call, stdout>>

NextCP == Project

SpecCP == InitCP /\ [][NextCP]_vars

\* =============================================================== claims
\* a*t^2 + b*t + c in integer arithmetic, for integer coefficients and t
EvalAt(c, t) == F(c[1].n * t.n * t.n + c[2].n * t.n + c[3].n)

\* twice the distance of the integer temperature t from the critical point
\* crit, in units of 1/(2 * crit.d)
Dist(t, crit) == AbsInt(2 * t.n * crit.d - 2 * crit.n)

\* x <= y for finite values
LeQ(x, y) == x.n * y.d <= y.n * x.d

\* C1: costProjection labels the bound strictly farther from the critical
\* point expensive and the other bound cheap; on equal distances the upper
\* bound is expensive and the lower bound cheap.
C1_FartherBoundIsExpensive ==
    pc = "returned" =>
        LET dl == Dist(call.lower, call.critical)
            du == Dist(call.upper, call.critical)
        IN  /\ dl > du => /\ ret.expensive = EvalAt(coefs, call.lower)
                          /\ ret.cheap = EvalAt(coefs, call.upper)
            /\ du > dl => /\ ret.expensive = EvalAt(coefs, call.upper)
                          /\ ret.cheap = EvalAt(coefs, call.lower)
            /\ dl = du => /\ ret.expensive = EvalAt(coefs, call.upper)
                          /\ ret.cheap = EvalAt(coefs, call.lower)

\* a tie between two different bounds whose usages differ, resolved to upper
C1_Witness ==
    /\ pc = "returned"
    /\ call.lower # call.upper
    /\ Dist(call.lower, call.critical) = Dist(call.upper, call.critical)
    /\ ret.expensive = EvalAt(coefs, call.upper)
    /\ ret.expensive # ret.cheap

\* C10: with the vertex of the quadratic as critical point, a convex fit
\* (a > 0) gives cheap <= expensive, and cheap_cost <= expensive_cost at a
\* non-negative rate; a concave fit (a < 0) gives cheap >= expensive.
C10_ConvexOrdersCheapBelowExpensive ==
    (pc = "returned" /\ call.critical.n * 2 * coefs[1].n = -coefs[2].n * call.critical.d) =>
        /\ coefs[1].n > 0 =>
              /\ LeQ(ret.cheap, ret.expensive)
              /\ call.rate.n >= 0 => LeQ(ret.cheap_cost, ret.expensive_cost)
        /\ coefs[1].n < 0 => LeQ(ret.expensive, ret.cheap)

C10_Witness ==
    /\ pc = "returned"
    /\ coefs[1].n > 0
    /\ call.critical.n * 2 * coefs[1].n = -coefs[2].n * call.critical.d
    /\ Dist(call.lower, call.critical) > Dist(call.upper, call.critical)
    /\ call.rate.n > 0
    /\ ret.cheap # ret.expensive
    /\ LeQ(ret.cheap_cost, ret.expensive_cost)

\* C2: every printed projection for month m in 1..12 and menu choice p has
\* expected = func(row m-1 of the monthly averages), and each cost is the
\* corresponding usage times the rate of provider_list[p].
C2_CostsUseTheSelectedProviderAndMonth ==
    \A k \in 1..Len(stdout) :
        LET e == stdout[k]
        IN  (e.month \in 1..NumMonths /\ e.provider \in 0..Len(provider_list) - 1) =>
               LET rate == provider_rate[provider_list[e.provider + 1]]
               IN  /\ e.result.expected = Func(coefs, monthly_df.Average[e.month - 1])
                   /\ e.result.expected_cost = FMul(e.result.expected, rate)
                   /\ e.result.cheap_cost = FMul(e.result.cheap, rate)
                   /\ e.result.expensive_cost = FMul(e.result.expensive, rate)

\* the second of two providers with different rates, asked for December
C2_Witness ==
    /\ Len(stdout) = 1
    /\ Len(provider_list) = 2
    /\ stdout[1].provider = 1
    /\ stdout[1].month = NumMonths
    /\ provider_rate[provider_list[1]] # provider_rate[provider_list[2]]
    /\ IsFinite(stdout[1].result.expected_cost)
    /\ stdout[1].result.expected_cost.n # 0

RECURSIVE SumUsage(_)
SumUsage(I) ==
    IF I = {} THEN 0
    ELSE LET i == CHOOSE j \in I : TRUE IN energy_df[i].Usage.n + SumUsage(I \ {i})

RECURSIVE SumBill(_)
SumBill(I) ==
    IF I = {} THEN 0
    ELSE LET i == CHOOSE j \in I : TRUE IN energy_df[i].Bill.n + SumBill(I \ {i})

PeriodsOf(p) == {i \in 1..Len(energy_df) : energy_df[i].Provider = p}

RECURSIVE SumOver(_, _)
SumOver(f, S) ==
    IF S = {} THEN F(0)
    ELSE LET x == CHOOSE y \in S : TRUE IN FAdd(f[x], SumOver(f, S \ {x}))

\* C3: after the aggregation pass the rate of every provider of the history
\* is (the bills of exactly its periods) / (the usage of exactly its
\* periods), and the per-provider totals add up to the totals of the history.
C3_RateIsBilledOverUsage ==
    (pc \in {"query", "done"} \/ DOMAIN provider_rate # {}) =>
        /\ DOMAIN provider_rate = Providers(energy_df)
        /\ \A p \in Providers(energy_df) :
              /\ provider_amount[p] = F(SumUsage(PeriodsOf(p)))
              /\ provider_billed[p] = F(SumBill(PeriodsOf(p)))
              /\ provider_rate[p] = FDiv(F(SumBill(PeriodsOf(p))), F(SumUsage(PeriodsOf(p))))
        /\ SumOver(provider_amount, DOMAIN provider_amount) = F(SumUsage(1..Len(energy_df)))
        /\ SumOver(provider_billed, DOMAIN provider_billed) = F(SumBill(1..Len(energy_df)))

\* one provider, periods (100 kWh, $10) and (200 kWh, $20): rate 0.10
C3_Witness ==
    /\ pc = "query"
    /\ Len(energy_df) = 2
    /\ \A i \in 1..2 : energy_df[i].Provider = "A"
    /\ energy_df[1].Usage = F(100) /\ energy_df[1].Bill = F(10)
    /\ energy_df[2].Usage = F(200) /\ energy_df[2].Bill = F(20)
    /\ provider_rate["A"] = [n |-> 1, d |-> 10]

InWindowOf(i) ==
    {j \in 1..Len(temp_df) :
        energy_df[i].Start <= temp_df[j].dates /\ temp_df[j].dates <= energy_df[i].End}

RECURSIVE SumHighLow(_)
SumHighLow(J) ==
    IF J = {} THEN 0
    ELSE LET j == CHOOSE k \in J : TRUE
         IN  temp_df[j].highs.n + temp_df[j].lows.n + SumHighLow(J \ {j})

\* C9: the temperature of a billing period is the mean of (high+low)/2 over
\* exactly the daily records dated in [start_date, end_date], both ends
\* included.
C9_WindowMeanIsInclusive ==
    \A i \in 1..Len(cycle_avg_temp) :
        InWindowOf(i) # {} =>
            /\ IsFinite(cycle_avg_temp[i])
            /\ cycle_avg_temp[i].n * 2 * Cardinality(InWindowOf(i))
                  = SumHighLow(InWindowOf(i)) * cycle_avg_temp[i].d

\* two consecutive periods share a boundary day that holds the only record
\* of either window: both get that record's mean
C9_Witness ==
    /\ Len(cycle_avg_temp) = 2
    /\ energy_df[1].Start < energy_df[1].End
    /\ energy_df[1].End = energy_df[2].Start
    /\ energy_df[2].Start < energy_df[2].End
    /\ Len(temp_df) = 1
    /\ temp_df[1].dates = energy_df[1].End
    /\ cycle_avg_temp[1] = cycle_avg_temp[2]
    /\ cycle_avg_temp[1] = Norm(temp_df[1].highs.n + temp_df[1].lows.n, 2)

\* C7: a query whose month is outside 1..12 ends in an error and prints no
\* projection.
C7_MonthOutOfRangeFails ==
    [][(pc = "query" /\ nread < Len(stdin) /\ stdin[nread + 1].month \notin 1..NumMonths) =>
          /\ pc' = "crashed"
          /\ err' \in {"KeyError", "IndexError"}
          /\ stdout' = stdout]_vars

\* month 0 asked of a valid provider: KeyError, nothing printed
C7_Witness ==
    /\ pc = "crashed"
    /\ err = "KeyError"
    /\ nread = 1
    /\ stdin[1].month = 0
    /\ stdin[1].provider = 0
    /\ stdout = <<>>

\* C8: the coefficients and the rate table are written once and never
\* change afterwards, and two printed projections for the same (provider,
\* month) are equal whatever was asked in between.
C8_FitAndRatesAreWriteOnce ==
    /\ [][/\ coefs # <<>> => coefs' = coefs
          /\ DOMAIN provider_rate # {} => provider_rate' = provider_rate
          /\ pc = "query" => (coefs # <<>> /\ DOMAIN provider_rate # {})]_vars
    /\ [](\A j, k \in 1..Len(stdout) :
             (stdout[j].provider = stdout[k].provider /\ stdout[j].month = stdout[k].month)
                => stdout[j].result = stdout[k].result)

\* the same query answered twice
C8_Witness ==
    /\ Len(stdout) = 2
    /\ stdout[1].provider = stdout[2].provider
    /\ stdout[1].month = stdout[2].month
    /\ stdout[1].result = stdout[2].result

EmptyWindows == {i \in 1..Len(energy_df) : InWindowOf(i) = {}}

\* C4: a billing period whose window holds no daily record stops the
\* pipeline with EmptyWindowError: no temperature is stored for the cycles
\* and no model is fitted.
C4_EmptyWindowFails ==
    EmptyWindows # {} =>
        /\ cycle_avg_temp = <<>>
        /\ coefs = <<>>
        /\ pc \in {"avg_temp", "cycle_avg_temp"} \/ (pc = "crashed" /\ err = "EmptyWindowError")

\* C5: a provider whose usage adds up to zero stops the rate aggregation
\* with ZeroUsageError: no rate is stored and no query is answered.
C5_ZeroUsageFails ==
    (\E p \in Providers(energy_df) : SumUsage(PeriodsOf(p)) = 0) =>
        /\ DOMAIN provider_rate = {}
        /\ stdout = <<>>
        /\ pc \in {"avg_temp", "cycle_avg_temp", "electric_norm", "polyfit", "provider_rate"}
              \/ (pc = "crashed" /\ err \in {"ZeroUsageError", "LinAlgError"})

\* C6: a billing period of zero or negative duration stops the
\* normalisation with InvalidPeriodError: no normalised usage is produced
\* and none reaches the fit.
C6_NonPositiveDurationFails ==
    (\E i \in 1..Len(energy_df) : energy_df[i].End - energy_df[i].Start <= 0) =>
        /\ electric_norm = <<>>
        /\ coefs = <<>>
        /\ pc \in {"avg_temp", "cycle_avg_temp", "electric_norm"}
              \/ (pc = "crashed" /\ err = "InvalidPeriodError")

====
